---- MODULE Spec2Model ----
(***************************************************************************)
(* Video decoder cache and frame-chunking dataset of                       *)
(* plugins/video_apply_model/model_inference.py.                           *)
(*                                                                         *)
(* A process (the main process, or one DataLoader worker) owns the two     *)
(* module-level OrderedDicts _worker_decoder_cache / _worker_iterator_cache*)
(* and the decoders it has opened.  SpecCache drives the three cache       *)
(* functions with arbitrary call sequences; SpecIter runs                  *)
(* TorchVideoFramesDataset.__iter__ in every worker of one DataLoader pass.*)
(* SpecDataset starts from the constructor call, SpecCollate applies the   *)
(* collate function to a batch, SpecWorkers starts the workers from the    *)
(* parent's module state, SpecShared interleaves two generators in one     *)
(* process, and SpecCacheFail / SpecIterFail add the failures.             *)
(***************************************************************************)
EXTENDS Integers, Sequences, FiniteSets, TLC

VARIABLES
    _worker_decoder_cache,   \* proc -> [none, items]: None, or OrderedDict path -> decoder
    _worker_iterator_cache,  \* proc -> [none, items]: None, or OrderedDict path -> iterator
    decoders,                \* proc -> sequence of the FFmpegVideoReader objects opened there
    nframes,                 \* the video files: path -> number of decodable frames
    last,                    \* SpecCache: the call that was made last, with the memory before it
    atime,                   \* SpecCache: path -> number of the call that accessed it last
    ncalls,                  \* SpecCache: number of calls made
    video_paths,             \* dataset.video_paths (0-based list, as a 1-based sequence)
    chunk_size,              \* dataset.chunk_size
    max_cached_decoders,     \* dataset.max_cached_decoders
    sample_ids,              \* dataset.sample_ids: a list as long as video_paths, or <<>> for None
    num_workers,             \* DataLoader num_workers (0: iterate in the main process)
    gen,                     \* proc -> the frame of the generator __iter__ running there
    emitted,                 \* proc -> the chunks the generator has yielded, in order
    proc_of,                 \* generator -> the process it runs in (its own, under a DataLoader)
    paths_of,                \* generator -> self.video_paths of the dataset object it iterates
    ctor,                    \* the call TorchVideoFramesDataset(...): arguments and outcome
    loader                   \* the collate call of the DataLoader: batch, failures and outcome

vars == <<_worker_decoder_cache, _worker_iterator_cache, decoders, nframes, last,
          atime, ncalls, video_paths, chunk_size, max_cached_decoders,
          sample_ids, num_workers, gen, emitted, proc_of, paths_of, ctor, loader>>

cacheVars == <<_worker_decoder_cache, _worker_iterator_cache, decoders>>
datasetVars == <<video_paths, chunk_size, max_cached_decoders, sample_ids, num_workers>>
envVars == <<proc_of, paths_of, ctor, loader>>

-----------------------------------------------------------------------------
(* Bounds of the model *)

MaxCalls == 4        \* SpecCache: calls per behaviour
MaxCap == 2          \* SpecCache: capacities passed as max_cached, 1..MaxCap
CacheFrames == 2     \* SpecCache: frames of every video
MaxWorkers == 2      \* SpecIter: num_workers in 0..MaxWorkers
MaxVideos == 3       \* SpecIter: len(video_paths) <= MaxVideos
MaxFrames == 2       \* SpecIter: frames of video A in 0..MaxFrames
MaxChunk == 2        \* SpecIter: chunk_size in 1..MaxChunk
ChunkFrames == 10    \* SpecChunk: frames of a video in 0..ChunkFrames
ChunkSizes == 4      \* SpecChunk: chunk_size in 1..ChunkSizes
MaxBatch == 5        \* SpecCollate: chunks per batch, 0..MaxBatch
MaxShared == 2       \* SpecShared: len(video_paths) <= MaxShared for both datasets

DefaultMaxCached == 8        \* max_cached_decoders=8
Paths == {"A", "B", "C"}     \* video paths
IterPaths == {"A", "B"}      \* video paths of SpecIter's datasets
PyNone == "<None>"           \* Python's None, where a path is expected
EmptyPath == ""              \* the empty string: a falsy path
Procs == 0 .. (MaxWorkers - 1)
MainProc == 0                \* the process iterating when num_workers = 0

-----------------------------------------------------------------------------
(* collections.OrderedDict, as a sequence of <<key, value>> in insertion order *)

OD_keys(od) == [i \in 1 .. Len(od) |-> od[i][1]]

OD_has(od, k) == \E i \in 1 .. Len(od) : od[i][1] = k

OD_index(od, k) == CHOOSE i \in 1 .. Len(od) : od[i][1] = k

OD_get(od, k) == od[OD_index(od, k)][2]

OD_remove(od, k) == SelectSeq(od, LAMBDA e : e[1] # k)

\* od[k] = v: a new key goes last, an existing key keeps its place
OD_set(od, k, v) ==
    IF OD_has(od, k)
    THEN [od EXCEPT ![OD_index(od, k)] = <<k, v>>]
    ELSE Append(od, <<k, v>>)

\* od.move_to_end(k), k present
OD_move_to_end_first(od, k) == <<<<k, OD_get(od, k)>>>> \o OD_remove(od, k)

OD_move_to_end(od, k) == Append(OD_remove(od, k), <<k, OD_get(od, k)>>)

\* od.popitem(last=False): the item removed
OD_popitem_last(od) == od[Len(od)]

OD_popitem(od) == od[1]

EmptyDict == [none |-> FALSE, items |-> <<>>]
NoneDict == [none |-> TRUE, items |-> <<>>]

\* Python truthiness of an OrderedDict-or-None and of a path-or-None
DictTruthy(d) == ~d.none /\ d.items # <<>>
PathTruthy(p) == p # PyNone /\ p # EmptyPath

-----------------------------------------------------------------------------
(* The memory of one process: m = [dcache, icache, decs] *)

Mem(p) == [dcache |-> _worker_decoder_cache[p],
           icache |-> _worker_iterator_cache[p],
           decs |-> decoders[p]]

\* etav.FFmpegVideoReader(video_path): a new open decoder at frame 0; its id is its index
OpenDecoder(decs, video_path) ==
    Append(decs, [path |-> video_path, open |-> TRUE, pos |-> 0])

\* iter(decoder): the reader is its own iterator
PyIter(dec) == dec

\* decoder.close()
CloseDecoder(decs, d) == [decs EXCEPT ![d].open = FALSE]

\* worker_init_fn(worker_id)
worker_init_fn_lazy(m) ==
    IF m.dcache.none THEN [m EXCEPT !.dcache = EmptyDict, !.icache = EmptyDict] ELSE m

worker_init_fn(m) == [m EXCEPT !.dcache = EmptyDict, !.icache = EmptyDict]

\* _del_decoder(video_path=None).  closeRaises: decoder.close() raises.
\* Result: the memory afterwards, the exception raised ("none" if it returned),
\* and the path whose entry was removed from the decoder cache (PyNone if none).
_del_decoder(m, video_path, closeRaises) ==
    IF ~DictTruthy(m.dcache)
    THEN \* line 152: None or empty
         [m |-> m, raised |-> "none", removed |-> PyNone]
    ELSE IF PathTruthy(video_path) /\ ~OD_has(m.dcache.items, video_path)
    THEN \* line 156: pop() of a missing key
         [m |-> m, raised |-> "KeyError", removed |-> PyNone]
    ELSE LET key == IF PathTruthy(video_path) THEN video_path
                    ELSE OD_popitem(m.dcache.items)[1]
             d == OD_get(m.dcache.items, key)
             popped == [m EXCEPT !.dcache.items = OD_remove(@, key)]
         IN  IF closeRaises
             THEN \* close() raised: the decoder stays open, the iterator entry stays
                  [m |-> popped, raised |-> "CloseError", removed |-> key]
             ELSE IF ~OD_has(m.icache.items, key)
             THEN \* del of a missing key, after the close
                  [m |-> [popped EXCEPT !.decs = CloseDecoder(@, d)],
                   raised |-> "KeyError", removed |-> key]
             ELSE [m |-> [popped EXCEPT !.decs = CloseDecoder(@, d),
                                        !.icache.items = OD_remove(@, key)],
                   raised |-> "none", removed |-> key]

\* line 143: len(_worker_decoder_cache) > max_cached
Overflows_at_capacity(n, max_cached) == n >= max_cached

Overflows(n, max_cached) == n > max_cached

\* _get_cached_decoder(video_path, max_cached).  fail: "none", or "open" when
\* FFmpegVideoReader() raises, or "close" when the evicted decoder's close() raises.
\* Result: the memory afterwards, the exception raised ("none" if it returned),
\* the pair returned, whether the path was found, and the path evicted.
_get_cached_decoder(m, video_path, max_cached, fail) ==
    LET m0 == IF m.dcache.none
              THEN [m EXCEPT !.dcache = EmptyDict, !.icache = EmptyDict]
              ELSE m
    IN  IF OD_has(m0.dcache.items, video_path)
        THEN LET moved == [m0 EXCEPT !.dcache.items = OD_move_to_end(@, video_path)]
             IN  IF ~OD_has(m0.icache.items, video_path)
                 THEN [m |-> moved, raised |-> "KeyError", ret |-> <<0, 0>>,
                       hit |-> TRUE, evicted |-> PyNone]
                 ELSE [m |-> [moved EXCEPT !.icache.items = OD_move_to_end(@, video_path)],
                       raised |-> "none",
                       ret |-> <<OD_get(m0.dcache.items, video_path),
                                 OD_get(m0.icache.items, video_path)>>,
                       hit |-> TRUE, evicted |-> PyNone]
        ELSE IF fail = "open"
        THEN [m |-> m0, raised |-> "OpenError", ret |-> <<0, 0>>,
              hit |-> FALSE, evicted |-> PyNone]
        ELSE LET decs1 == OpenDecoder(m0.decs, video_path)
                 decoder == Len(decs1)
                 iterator == PyIter(decoder)
                 m1 == [dcache |-> [m0.dcache EXCEPT !.items = OD_set(@, video_path, decoder)],
                        icache |-> [m0.icache EXCEPT !.items = OD_set(@, video_path, iterator)],
                        decs |-> decs1]
             IN  IF Overflows(Len(m1.dcache.items), max_cached)
                 THEN LET r == _del_decoder(m1, PyNone, fail = "close")
                      IN  [m |-> r.m, raised |-> r.raised,
                           ret |-> IF r.raised = "none" THEN <<decoder, iterator>> ELSE <<0, 0>>,
                           hit |-> FALSE, evicted |-> r.removed]
                 ELSE [m |-> m1, raised |-> "none", ret |-> <<decoder, iterator>>,
                       hit |-> FALSE, evicted |-> PyNone]

\* next(iterator) on an open decoder: the frame read (its 0-based position), or
\* StopIteration after the last frame
HasFrame(decs, d) == decs[d].pos < nframes[decs[d].path]

ReadFrame(decs, d) == [decs EXCEPT ![d].pos = @ + 1]

-----------------------------------------------------------------------------
(* SpecCache: any sequence of calls of the three cache functions in one process, *)
(* and of next() on the iterators they returned                                  *)

NoCall == [op |-> "none", path |-> PyNone, cap |-> 0,
           pre |-> [dcache |-> NoneDict, icache |-> NoneDict, decs |-> <<>>],
           raised |-> "none", ret |-> <<0, 0>>, hit |-> FALSE, removed |-> PyNone,
           fail |-> "none"]

\* sample_idx of a chunk: None, or the id of a sample
NoId == <<>>
SampleId(i) == <<"id", i>>

\* The frame of the generator TorchVideoFramesDataset.__iter__ in one process.
\* pc: "idle" no generator; "boot" worker process before worker_init_fn; "start"
\* not yet advanced; "for_video" at line 282; "for_img" at line 292; "yield_full"
\* suspended at line 300; "yield_last" suspended at line 311; "del" at line 321;
\* "done" returned; "raised" left by an exception; "closed" closed by the consumer.
\* done counts the videos finished; opened lists the iterators obtained, one per
\* video started (kept for the claims, no local of the code).
IdleGen == [pc |-> "idle", video_indices |-> <<>>, done |-> 0, video_idx |-> 0,
            video_path |-> PyNone, sample_id |-> NoId, iterator |-> 0,
            frames_chunk |-> <<>>, frame_num |-> 0, opened |-> <<>>]

\* no constructor call and no collate call
NoCtor == [state |-> "none"]
NoLoader == [state |-> "none"]

SetMem(p, m) ==
    /\ _worker_decoder_cache' = [_worker_decoder_cache EXCEPT ![p] = m.dcache]
    /\ _worker_iterator_cache' = [_worker_iterator_cache EXCEPT ![p] = m.icache]
    /\ decoders' = [decoders EXCEPT ![p] = m.decs]

InitCache ==
    /\ _worker_decoder_cache = [p \in Procs |-> NoneDict]
    /\ _worker_iterator_cache = [p \in Procs |-> NoneDict]
    /\ decoders = [p \in Procs |-> <<>>]
    /\ nframes = [p \in Paths |-> CacheFrames]
    /\ ncalls = 0
    /\ atime = [p \in Paths |-> 0]
    /\ last = NoCall
    /\ video_paths = <<>>
    /\ chunk_size = 1
    /\ max_cached_decoders = 1
    /\ sample_ids = <<>>
    /\ num_workers = 0
    /\ gen = [p \in Procs |-> IdleGen]
    /\ emitted = [p \in Procs |-> <<>>]
    /\ proc_of = [p \in Procs |-> p]
    /\ paths_of = [p \in Procs |-> <<>>]
    /\ ctor = NoCtor
    /\ loader = NoLoader

CallGet(video_path, max_cached) ==
    /\ ncalls < MaxCalls
    /\ LET r == _get_cached_decoder(Mem(MainProc), video_path, max_cached, "none")
       IN  /\ SetMem(MainProc, r.m)
           /\ last' = [op |-> "get", path |-> video_path, cap |-> max_cached,
                       pre |-> Mem(MainProc), raised |-> r.raised, ret |-> r.ret,
                       hit |-> r.hit, removed |-> r.evicted, fail |-> "none"]
    /\ ncalls' = ncalls + 1
    /\ atime' = [atime EXCEPT ![video_path] = ncalls + 1]
    /\ UNCHANGED <<envVars, nframes, datasetVars, gen, emitted>>

CallDel(video_path) ==
    /\ ncalls < MaxCalls
    /\ LET r == _del_decoder(Mem(MainProc), video_path, FALSE)
       IN  /\ SetMem(MainProc, r.m)
           /\ last' = [op |-> "del", path |-> video_path, cap |-> 0,
                       pre |-> Mem(MainProc), raised |-> r.raised, ret |-> <<0, 0>>,
                       hit |-> FALSE, removed |-> r.removed, fail |-> "none"]
    /\ ncalls' = ncalls + 1
    /\ UNCHANGED <<envVars, atime, nframes, datasetVars, gen, emitted>>

CallWorkerInit ==
    /\ ncalls < MaxCalls
    /\ SetMem(MainProc, worker_init_fn(Mem(MainProc)))
    /\ last' = [op |-> "init", path |-> PyNone, cap |-> 0,
                pre |-> Mem(MainProc), raised |-> "none", ret |-> <<0, 0>>,
                hit |-> FALSE, removed |-> PyNone,
           fail |-> "none"]
    /\ ncalls' = ncalls + 1
    /\ UNCHANGED <<envVars, atime, nframes, datasetVars, gen, emitted>>

\* next() on the iterator the last _get_cached_decoder returned, while it has frames
CallNext ==
    /\ ncalls < MaxCalls
    /\ last.op \in {"get", "next"}
    /\ last.raised = "none"
    /\ LET it == last.ret[2]
       IN  /\ decoders[MainProc][it].open
           /\ HasFrame(decoders[MainProc], it)
           /\ SetMem(MainProc, [Mem(MainProc) EXCEPT !.decs = ReadFrame(@, it)])
    /\ last' = [last EXCEPT !.op = "next", !.pre = Mem(MainProc)]
    /\ ncalls' = ncalls + 1
    /\ UNCHANGED <<envVars, atime, nframes, datasetVars, gen, emitted>>

NextCache ==
    \/ \E video_path \in Paths, max_cached \in 1 .. MaxCap : CallGet(video_path, max_cached)
    \/ \E video_path \in Paths \cup {PyNone, EmptyPath} : CallDel(video_path)
    \/ CallWorkerInit
    \/ CallNext

SpecCache == InitCache /\ [][NextCache]_vars

\* SpecCacheFail: as SpecCache, and decoder.close() may raise in _del_decoder
CallDelCloseRaises(video_path) ==
    /\ ncalls < MaxCalls
    /\ DictTruthy(Mem(MainProc).dcache)
    /\ PathTruthy(video_path) => OD_has(Mem(MainProc).dcache.items, video_path)
    /\ LET r == _del_decoder(Mem(MainProc), video_path, TRUE)
       IN  /\ SetMem(MainProc, r.m)
           /\ last' = [op |-> "del", path |-> video_path, cap |-> 0,
                       pre |-> Mem(MainProc), raised |-> r.raised, ret |-> <<0, 0>>,
                       hit |-> FALSE, removed |-> r.removed, fail |-> "close"]
    /\ ncalls' = ncalls + 1
    /\ UNCHANGED <<envVars, atime, nframes, datasetVars, gen, emitted>>

\* _get_cached_decoder of a path that is not cached, where FFmpegVideoReader()
\* raises (fail = "open"), or where the cache overflows and close() of the evicted
\* decoder raises (fail = "close")
CallGetRaises(video_path, max_cached, fail) ==
    /\ ncalls < MaxCalls
    /\ ~OD_has(Mem(MainProc).dcache.items, video_path)
    /\ fail = "close" => Overflows(Len(Mem(MainProc).dcache.items) + 1, max_cached)
    /\ LET r == _get_cached_decoder(Mem(MainProc), video_path, max_cached, fail)
       IN  /\ SetMem(MainProc, r.m)
           /\ last' = [op |-> "get", path |-> video_path, cap |-> max_cached,
                       pre |-> Mem(MainProc), raised |-> r.raised, ret |-> r.ret,
                       hit |-> r.hit, removed |-> r.evicted, fail |-> fail]
    /\ ncalls' = ncalls + 1
    /\ atime' = [atime EXCEPT ![video_path] = ncalls + 1]
    /\ UNCHANGED <<envVars, nframes, datasetVars, gen, emitted>>

NextCacheFail ==
    \/ NextCache
    \/ \E video_path \in Paths \cup {PyNone} : CallDelCloseRaises(video_path)
    \/ \E video_path \in Paths, max_cached \in 1 .. MaxCap :
           CallGetRaises(video_path, max_cached, "open")
    \/ \E video_path \in Paths, max_cached \in 1 .. MaxCap :
           CallGetRaises(video_path, max_cached, "close")

SpecCacheFail == InitCache /\ [][NextCacheFail]_vars

-----------------------------------------------------------------------------
(* Claims on the decoder cache (SpecCache) *)

CacheItems == _worker_decoder_cache[MainProc].items
IterItems == _worker_iterator_cache[MainProc].items
KeySet(od) == {od[i][1] : i \in 1 .. Len(od)}
GetReturned == last.op = "get" /\ last.raised = "none"

\* C3: after any _get_cached_decoder(path, capacity) returns, the decoder cache
\* holds at most `capacity` entries, whatever calls (with whatever capacities)
\* came before.
C3_CacheWithinCapacity == GetReturned => Len(CacheItems) <= last.cap

\* C4: when a miss makes the cache exceed the capacity, the entry evicted is the
\* one whose last access (hit or insertion) is the oldest: it is gone from both
\* caches and its decoder is closed, and every other entry is still cached.
C4_Overflow ==
    /\ GetReturned
    /\ ~OD_has(last.pre.dcache.items, last.path)
    /\ Len(last.pre.dcache.items) + 1 > last.cap

C4_Candidates == KeySet(last.pre.dcache.items) \cup {last.path}

C4_LeastRecent ==
    CHOOSE k \in C4_Candidates : \A j \in C4_Candidates : atime[k] <= atime[j]

C4_DecoderOf(k) ==
    IF k = last.path THEN last.ret[1] ELSE OD_get(last.pre.dcache.items, k)

C4_EvictsLeastRecentlyUsed ==
    C4_Overflow =>
        /\ KeySet(CacheItems) = C4_Candidates \ {C4_LeastRecent}
        /\ KeySet(IterItems) = C4_Candidates \ {C4_LeastRecent}
        /\ ~decoders[MainProc][C4_DecoderOf(C4_LeastRecent)].open
        /\ \A k \in C4_Candidates \ {C4_LeastRecent} :
               decoders[MainProc][C4_DecoderOf(k)].open =
                   (k = last.path \/ last.pre.decs[C4_DecoderOf(k)].open)

\* capacity 2, accesses A, B, C: the cache holds exactly B, C and A's decoder is closed
C4_Witness ==
    /\ C4_Overflow
    /\ last.path = "C" /\ last.cap = 2
    /\ OD_keys(last.pre.dcache.items) = <<"A", "B">>
    /\ atime["A"] < atime["B"]
    /\ OD_keys(CacheItems) = <<"B", "C">>
    /\ ~decoders[MainProc][OD_get(last.pre.dcache.items, "A")].open

\* A was inserted first but hit again after B was inserted: B is the one evicted
C4_WitnessAfterHit ==
    /\ C4_Overflow
    /\ OD_keys(last.pre.dcache.items) = <<"B", "A">>
    /\ OD_get(last.pre.dcache.items, "A") < OD_get(last.pre.dcache.items, "B")
    /\ KeySet(CacheItems) = {"A", "C"}

\* C7: every decoder that is open is held by the decoder cache of its process.
C7_OpenDecodersAreCached ==
    \A p \in Procs : \A d \in 1 .. Len(decoders[p]) :
        decoders[p][d].open =>
            \E i \in 1 .. Len(_worker_decoder_cache[p].items) :
                _worker_decoder_cache[p].items[i] = <<decoders[p][d].path, d>>

\* C8: _del_decoder(path) with a path that is not in the cache raises nothing
\* and leaves the cache as it was.
C8_DelAbsentIsNoOp ==
    (last.op = "del" /\ last.path \in Paths
        /\ ~OD_has(last.pre.dcache.items, last.path)) =>
        /\ last.raised = "none"
        /\ Mem(MainProc) = last.pre

\* C9: a hit returns the stored (decoder, iterator) pair, opens and closes no
\* decoder, moves no cursor, and changes the two caches only by making the
\* path their last (most recently used) entry.
C9_Hit ==
    /\ last.op = "get"
    /\ ~last.pre.dcache.none
    /\ OD_has(last.pre.dcache.items, last.path)

C9_MovedToEnd(before, after, k) ==
    /\ Len(after) = Len(before)
    /\ after[Len(after)] = <<k, OD_get(before, k)>>
    /\ OD_remove(after, k) = OD_remove(before, k)

C9_HitReturnsStoredPair ==
    C9_Hit =>
        /\ last.raised = "none"
        /\ last.ret = <<OD_get(last.pre.dcache.items, last.path),
                        OD_get(last.pre.icache.items, last.path)>>
        /\ decoders[MainProc] = last.pre.decs
        /\ C9_MovedToEnd(last.pre.dcache.items, CacheItems, last.path)
        /\ C9_MovedToEnd(last.pre.icache.items, IterItems, last.path)

\* a hit on the older of two entries, whose iterator has already produced a frame
C9_Witness ==
    /\ C9_Hit
    /\ Len(last.pre.dcache.items) = 2
    /\ last.pre.dcache.items[1][1] = last.path
    /\ decoders[MainProc][last.ret[2]].pos > 0
    /\ decoders[MainProc][last.ret[2]].open

-----------------------------------------------------------------------------
(* TorchVideoFramesDataset.__iter__, one generator per process of a DataLoader pass *)

\* range(start, stop, step), step >= 1, as a sequence
PyRange(start, stop, step) ==
    IF stop <= start THEN <<>>
    ELSE [i \in 1 .. ((stop - start + step - 1) \div step) |-> start + (i - 1) * step]

\* lines 266-275: the indices of the videos this iterator processes.
\* nw = 0 stands for get_worker_info() returning None.
VideoIndices_overlapping(worker_id, nw, n) ==
    IF nw = 0 THEN PyRange(0, n, 1) ELSE PyRange(worker_id, n, 1)

VideoIndices(worker_id, nw, n) ==
    IF nw = 0 THEN PyRange(0, n, 1) ELSE PyRange(worker_id, n, nw)

\* np.arange(a, b) + 1
ARangePlus1(a, b) == [i \in 1 .. (IF b > a THEN b - a ELSE 0) |-> a + (i - 1) + 1]

\* lines 303-306: the frame_ids of a full chunk
FullChunkIds_zero_based(frame_num) ==
    [i \in 1 .. chunk_size |-> frame_num - chunk_size + (i - 1)]

FullChunkIds(frame_num) == ARangePlus1(frame_num - chunk_size, frame_num)

\* lines 314-317: the frame_ids of the last, shorter chunk
LastChunkIds(frame_num, frames_chunk) ==
    ARangePlus1(frame_num - Len(frames_chunk), frame_num)

\* the image next(iterator) returns at a cursor position, and self.transform(frame)
Frame(video_path, pos) == <<video_path, pos>>
Transform(frame) == <<"transformed", frame>>

\* line 284
SampleIdOf_first(video_idx) ==
    IF sample_ids # <<>> THEN sample_ids[1] ELSE NoId

SampleIdOf(video_idx) ==
    IF sample_ids # <<>> THEN sample_ids[video_idx + 1] ELSE NoId

Chunk(g, frames, ids) ==
    [frames |-> frames, sample_idx |-> g.sample_id, frame_ids |-> ids,
     video_idx |-> g.video_idx]

\* the state of the processes when the DataLoader starts iterating
InitProcs ==
    /\ _worker_decoder_cache = [p \in Procs |-> NoneDict]
    /\ _worker_iterator_cache = [p \in Procs |-> NoneDict]
    /\ decoders = [p \in Procs |-> <<>>]
    /\ gen = [p \in Procs |->
                 IF num_workers = 0
                 THEN IF p = MainProc THEN [IdleGen EXCEPT !.pc = "start"] ELSE IdleGen
                 ELSE IF p < num_workers THEN [IdleGen EXCEPT !.pc = "boot"] ELSE IdleGen]
    /\ emitted = [p \in Procs |-> <<>>]
    /\ last = NoCall
    /\ atime = [p \in Paths |-> 0]
    /\ ncalls = 0
    /\ proc_of = [p \in Procs |-> p]
    /\ paths_of = [p \in Procs |-> video_paths]
    /\ ctor = NoCtor
    /\ loader = NoLoader

\* A generator runs from the call of next() to its next yield: generators of one
\* process (one thread) are advanced one at a time and interleave at yields only.
Running(q) == gen[q].pc \in {"for_video", "for_img", "del"}
CanRun(p) == \A q \in Procs \ {p} : proc_of[q] = proc_of[p] => ~Running(q)

\* the DataLoader calls worker_init_fn(worker_id) in each worker before iterating
WorkerInit(p) ==
    /\ gen[p].pc = "boot"
    /\ SetMem(proc_of[p], worker_init_fn(Mem(proc_of[p])))
    /\ gen' = [gen EXCEPT ![p].pc = "start"]
    /\ UNCHANGED <<envVars, nframes, last, atime, ncalls, datasetVars, emitted>>

\* lines 266-280
IterStart(p) ==
    /\ gen[p].pc = "start"
    /\ CanRun(p)
    /\ gen' = [gen EXCEPT ![p].pc = "for_video",
                          ![p].video_indices = VideoIndices(p, num_workers, Len(paths_of[p]))]
    /\ UNCHANGED <<envVars, cacheVars, nframes, last, atime, ncalls, datasetVars, emitted>>

\* lines 282-291: the next assigned video
IterNextVideo(p) ==
    /\ gen[p].pc = "for_video"
    /\ gen[p].done < Len(gen[p].video_indices)
    /\ LET video_idx == gen[p].video_indices[gen[p].done + 1]
           video_path == paths_of[p][video_idx + 1]
           r == _get_cached_decoder(Mem(proc_of[p]), video_path, max_cached_decoders, "none")
       IN  /\ SetMem(proc_of[p], r.m)
           /\ gen' = [gen EXCEPT ![p].pc = "for_img",
                                 ![p].video_idx = video_idx,
                                 ![p].video_path = video_path,
                                 ![p].sample_id = SampleIdOf(video_idx),
                                 ![p].iterator = r.ret[2],
                                 ![p].frames_chunk = <<>>,
                                 ![p].frame_num = 0,
                                 ![p].opened = Append(@, r.ret[2])]
    /\ UNCHANGED <<envVars, nframes, last, atime, ncalls, datasetVars, emitted>>

\* line 282: no video left, the generator returns
IterFinish(p) ==
    /\ gen[p].pc = "for_video"
    /\ gen[p].done = Len(gen[p].video_indices)
    /\ gen' = [gen EXCEPT ![p].pc = "done"]
    /\ UNCHANGED <<envVars, cacheVars, nframes, last, atime, ncalls, datasetVars, emitted>>

\* lines 292-308: one more frame; a full chunk is yielded
IterFrame(p) ==
    /\ gen[p].pc = "for_img"
    /\ decoders[proc_of[p]][gen[p].iterator].open
    /\ HasFrame(decoders[proc_of[p]], gen[p].iterator)
    /\ LET g == gen[p]
           frame == Transform(Frame(decoders[proc_of[p]][g.iterator].path, decoders[proc_of[p]][g.iterator].pos))
           frames_chunk == Append(g.frames_chunk, frame)
           frame_num == g.frame_num + 1
       IN  /\ decoders' = [decoders EXCEPT ![proc_of[p]] = ReadFrame(@, g.iterator)]
           /\ IF Len(frames_chunk) = chunk_size
              THEN /\ emitted' = [emitted EXCEPT ![p] =
                          Append(@, Chunk(g, frames_chunk, FullChunkIds(frame_num)))]
                   /\ gen' = [gen EXCEPT ![p].pc = "yield_full",
                                         ![p].frames_chunk = frames_chunk,
                                         ![p].frame_num = frame_num]
              ELSE /\ emitted' = emitted
                   /\ gen' = [gen EXCEPT ![p].frames_chunk = frames_chunk,
                                         ![p].frame_num = frame_num]
    /\ UNCHANGED <<envVars, _worker_decoder_cache, _worker_iterator_cache, nframes, last, atime,
                   ncalls, datasetVars>>

\* lines 292, 310-318: the iterator is exhausted; a last shorter chunk is yielded
IterExhausted(p) ==
    /\ gen[p].pc = "for_img"
    /\ decoders[proc_of[p]][gen[p].iterator].open
    /\ ~HasFrame(decoders[proc_of[p]], gen[p].iterator)
    /\ LET g == gen[p]
       IN  IF g.frames_chunk # <<>>
           THEN /\ emitted' = [emitted EXCEPT ![p] =
                       Append(@, Chunk(g, g.frames_chunk,
                                       LastChunkIds(g.frame_num, g.frames_chunk)))]
                /\ gen' = [gen EXCEPT ![p].pc = "yield_last"]
           ELSE /\ emitted' = emitted
                /\ gen' = [gen EXCEPT ![p].pc = "del"]
    /\ UNCHANGED <<envVars, cacheVars, nframes, last, atime, ncalls, datasetVars>>

IterResume_keeps_chunk(p) ==
    /\ gen[p].pc \in {"yield_full", "yield_last"}
    /\ CanRun(p)
    /\ gen' = [gen EXCEPT ![p].pc = IF @ = "yield_full" THEN "for_img" ELSE "del"]
    /\ UNCHANGED <<envVars, cacheVars, nframes, last, atime, ncalls, datasetVars, emitted>>

IterResume_reenters(p) ==
    /\ gen[p].pc \in {"yield_full", "yield_last"}
    /\ CanRun(p)
    /\ IF gen[p].pc = "yield_full"
       THEN LET r == _get_cached_decoder(Mem(proc_of[p]), gen[p].video_path,
                                         max_cached_decoders, "none")
            IN  /\ SetMem(proc_of[p], r.m)
                /\ gen' = [gen EXCEPT ![p].pc = "for_img",
                                      ![p].frames_chunk = <<>>,
                                      ![p].iterator = r.ret[2],
                                      ![p].frame_num = IF r.hit THEN @ ELSE 0,
                                      ![p].opened = IF r.hit THEN @ ELSE Append(@, r.ret[2])]
       ELSE /\ gen' = [gen EXCEPT ![p].pc = "del"]
            /\ UNCHANGED cacheVars
    /\ UNCHANGED <<envVars, nframes, last, atime, ncalls, datasetVars, emitted>>

\* the consumer asks for the next chunk: the generator resumes after its yield
\* (line 308 after a full chunk, line 320 after the last one)
IterResume(p) ==
    /\ gen[p].pc \in {"yield_full", "yield_last"}
    /\ CanRun(p)
    /\ gen' = [gen EXCEPT ![p].pc = IF @ = "yield_full" THEN "for_img" ELSE "del",
                          ![p].frames_chunk = IF gen[p].pc = "yield_full" THEN <<>> ELSE @]
    /\ UNCHANGED <<envVars, cacheVars, nframes, last, atime, ncalls, datasetVars, emitted>>

\* line 321: _del_decoder(video_path), then back to line 282
IterRelease_skipped(p) ==
    /\ gen[p].pc = "del"
    /\ gen' = [gen EXCEPT ![p].pc = "for_video", ![p].done = @ + 1]
    /\ UNCHANGED <<envVars, cacheVars, nframes, last, atime, ncalls, datasetVars, emitted>>

IterRelease(p) ==
    /\ gen[p].pc = "del"
    /\ LET r == _del_decoder(Mem(proc_of[p]), gen[p].video_path, FALSE)
       IN  /\ SetMem(proc_of[p], r.m)
           /\ gen' = IF r.raised = "none"
                     THEN [gen EXCEPT ![p].pc = "for_video", ![p].done = @ + 1]
                     ELSE [gen EXCEPT ![p].pc = "raised"]
    /\ UNCHANGED <<envVars, nframes, last, atime, ncalls, datasetVars, emitted>>

NextIter ==
    \E p \in Procs :
        \/ WorkerInit(p)
        \/ IterStart(p)
        \/ IterNextVideo(p)
        \/ IterFinish(p)
        \/ IterFrame(p)
        \/ IterExhausted(p)
        \/ IterResume(p)
        \/ IterRelease(p)

\* sequences over S of length 0..n
SeqsUpTo(S, n) == UNION {[1 .. k -> S] : k \in 0 .. n}

\* the sample ids apply_image_model_to_video_frames has the dataset derive (line 190, 261)
DerivedIds(m) == [i \in 1 .. m |-> SampleId(i - 1)]

\* SpecIter: one pass of a DataLoader over a dataset, with 0..MaxWorkers workers
InitIter ==
    /\ num_workers \in 0 .. MaxWorkers
    /\ video_paths \in SeqsUpTo(IterPaths, MaxVideos)
    /\ chunk_size \in 1 .. MaxChunk
    /\ max_cached_decoders \in {1, DefaultMaxCached}
    /\ sample_ids = DerivedIds(Len(video_paths))
    /\ nframes \in [Paths -> 0 .. MaxFrames]
    /\ nframes["B"] \in {0, 1}       \* B: an empty or a one-frame video
    /\ nframes["C"] = 0
    /\ InitProcs

SpecIter == InitIter /\ [][NextIter]_vars

\* SpecChunk: longer videos, in the main process or in a single worker
InitChunk ==
    /\ num_workers \in {0, 1}
    /\ video_paths = <<"A", "B">>
    /\ chunk_size \in 1 .. ChunkSizes
    /\ max_cached_decoders = DefaultMaxCached
    /\ sample_ids = DerivedIds(Len(video_paths))
    /\ nframes \in [Paths -> 0 .. ChunkFrames]
    /\ nframes["C"] = 0
    /\ InitProcs

SpecChunk == InitChunk /\ [][NextIter]_vars

\* the failures of one pass: self.transform(frame) raises (skip_failures is not
\* consulted by __iter__), next(iterator) raises, or the consumer stops early and
\* the suspended generator is closed (GeneratorExit at the yield)
IterTransformRaises(p) ==
    /\ gen[p].pc = "for_img"
    /\ decoders[proc_of[p]][gen[p].iterator].open
    /\ HasFrame(decoders[proc_of[p]], gen[p].iterator)
    /\ decoders' = [decoders EXCEPT ![proc_of[p]] = ReadFrame(@, gen[p].iterator)]
    /\ gen' = [gen EXCEPT ![p].pc = "raised"]
    /\ UNCHANGED <<envVars, _worker_decoder_cache, _worker_iterator_cache, nframes, last, atime,
                   ncalls, datasetVars, emitted>>

IterDecodeRaises(p) ==
    /\ gen[p].pc = "for_img"
    /\ decoders[proc_of[p]][gen[p].iterator].open
    /\ gen' = [gen EXCEPT ![p].pc = "raised"]
    /\ UNCHANGED <<envVars, cacheVars, nframes, last, atime, ncalls, datasetVars, emitted>>

IterAbandon(p) ==
    /\ gen[p].pc \in {"yield_full", "yield_last"}
    /\ gen' = [gen EXCEPT ![p].pc = "closed"]
    /\ UNCHANGED <<envVars, cacheVars, nframes, last, atime, ncalls, datasetVars, emitted>>

NextIterFail ==
    \/ NextIter
    \/ \E p \in Procs :
        \/ IterTransformRaises(p)
        \/ IterDecodeRaises(p)
        \/ IterAbandon(p)

SpecIterFail == InitIter /\ [][NextIterFail]_vars

\* line 292: next(iterator) when the decoder was closed since the generator last
\* ran.  What a closed FFmpegVideoReader does then is outside this repository: the
\* read raises, or it ends the iteration like the end of the video.
IterReadClosedRaises(p) ==
    /\ gen[p].pc = "for_img"
    /\ ~decoders[proc_of[p]][gen[p].iterator].open
    /\ gen' = [gen EXCEPT ![p].pc = "raised"]
    /\ UNCHANGED <<envVars, cacheVars, nframes, last, atime, ncalls, datasetVars, emitted>>

IterReadClosedStops(p) ==
    /\ gen[p].pc = "for_img"
    /\ ~decoders[proc_of[p]][gen[p].iterator].open
    /\ LET g == gen[p]
       IN  IF g.frames_chunk # <<>>
           THEN /\ emitted' = [emitted EXCEPT ![p] =
                       Append(@, Chunk(g, g.frames_chunk,
                                       LastChunkIds(g.frame_num, g.frames_chunk)))]
                /\ gen' = [gen EXCEPT ![p].pc = "yield_last"]
           ELSE /\ emitted' = emitted
                /\ gen' = [gen EXCEPT ![p].pc = "del"]
    /\ UNCHANGED <<envVars, cacheVars, nframes, last, atime, ncalls, datasetVars>>

\* SpecShared: two dataset objects iterated in the main process, their generators
\* advanced in any interleaving (as zip() or two alternating loops do); both use
\* the module-level caches of that process
SharedGens == {0, 1}

NextShared ==
    \E p \in Procs :
        \/ IterStart(p)
        \/ IterNextVideo(p)
        \/ IterFinish(p)
        \/ IterFrame(p)
        \/ IterExhausted(p)
        \/ IterResume(p)
        \/ IterRelease(p)
        \/ IterReadClosedRaises(p)
        \/ IterReadClosedStops(p)

InitShared ==
    /\ num_workers = 0
    /\ video_paths \in SeqsUpTo(IterPaths, MaxShared)
    /\ chunk_size \in 1 .. MaxChunk
    /\ max_cached_decoders \in {1, DefaultMaxCached}
    /\ sample_ids = <<>>
    /\ nframes \in [Paths -> 0 .. MaxFrames]
    /\ nframes["B"] \in {0, 1}
    /\ nframes["C"] = 0
    /\ _worker_decoder_cache = [p \in Procs |-> NoneDict]
    /\ _worker_iterator_cache = [p \in Procs |-> NoneDict]
    /\ decoders = [p \in Procs |-> <<>>]
    /\ gen = [p \in Procs |-> IF p \in SharedGens THEN [IdleGen EXCEPT !.pc = "start"]
                                                  ELSE IdleGen]
    /\ emitted = [p \in Procs |-> <<>>]
    /\ last = NoCall
    /\ atime = [p \in Paths |-> 0]
    /\ ncalls = 0
    /\ proc_of = [p \in Procs |-> MainProc]
    /\ \E other \in SeqsUpTo(IterPaths, MaxShared) :
           paths_of = [p \in Procs |-> IF p = MainProc THEN video_paths ELSE other]
    /\ ctor = NoCtor
    /\ loader = NoLoader

SpecShared == InitShared /\ [][NextShared]_vars

\* SpecIterLive: one pass without failure in which the processes keep running
\* and the consumer keeps asking for the next chunk: a step that stays possible
\* is eventually taken
InitLive ==
    /\ num_workers \in 0 .. MaxWorkers
    /\ video_paths \in SeqsUpTo(IterPaths, MaxVideos)
    /\ chunk_size \in 1 .. MaxChunk
    /\ max_cached_decoders \in {1, DefaultMaxCached}
    /\ sample_ids = DerivedIds(Len(video_paths))
    /\ nframes = [p \in Paths |-> IF p = "A" THEN MaxFrames ELSE IF p = "B" THEN 1 ELSE 0]
    /\ InitProcs

SpecIterLive == InitLive /\ [][NextIter]_vars /\ WF_vars(NextIter)

\* SpecWorkers: one pass with 1..MaxWorkers worker processes, each starting with
\* the module state of the parent: never used (None), or holding a decoder that an
\* earlier pass in the main process left cached
NoneMem == [dcache |-> NoneDict, icache |-> NoneDict, decs |-> <<>>]
InheritedMems == {NoneMem, _get_cached_decoder(NoneMem, "A", DefaultMaxCached, "none").m}

InitWorkers ==
    /\ num_workers \in 1 .. MaxWorkers
    /\ video_paths \in SeqsUpTo(IterPaths, MaxVideos)
    /\ chunk_size \in 1 .. MaxChunk
    /\ max_cached_decoders \in {1, DefaultMaxCached}
    /\ sample_ids = DerivedIds(Len(video_paths))
    /\ nframes = [p \in Paths |-> IF p = "A" THEN MaxFrames ELSE IF p = "B" THEN 1 ELSE 0]
    /\ \E m \in InheritedMems :
           /\ _worker_decoder_cache = [p \in Procs |-> m.dcache]
           /\ _worker_iterator_cache = [p \in Procs |-> m.icache]
           /\ decoders = [p \in Procs |-> m.decs]
    /\ gen = [p \in Procs |-> IF p < num_workers THEN [IdleGen EXCEPT !.pc = "boot"]
                                                 ELSE IdleGen]
    /\ emitted = [p \in Procs |-> <<>>]
    /\ last = NoCall
    /\ atime = [p \in Paths |-> 0]
    /\ ncalls = 0
    /\ proc_of = [p \in Procs |-> p]
    /\ paths_of = [p \in Procs |-> video_paths]
    /\ ctor = NoCtor
    /\ loader = NoLoader

SpecWorkers == InitWorkers /\ [][NextIter]_vars

-----------------------------------------------------------------------------
(* SpecDataset: TorchVideoFramesDataset(...) is called with any combination of *)
(* its optional arguments; a dataset that was constructed is iterated once   *)

\* an optional argument: None, or a value
None == [none |-> TRUE, val |-> <<>>]
Some(v) == [none |-> FALSE, val |-> v]

\* a sample collection, as the list of its samples; samples.values(field)
Sample(filepath, id) == [filepath |-> filepath, id |-> id]
Values(samples, field) == [i \in 1 .. Len(samples) |-> samples[i][field]]
SamplesOf(paths) == [i \in 1 .. Len(paths) |-> Sample(paths[i], SampleId(i - 1))]

\* sample ids the caller supplies itself
GivenIds(m) == [i \in 1 .. m |-> <<"given", i - 1>>]

\* lines 245-263; samples.values on samples=None raises AttributeError
_parse_inputs_unchecked(video_paths_arg, samples, sample_ids_arg, include_ids) ==
    IF (video_paths_arg.none \/ (include_ids /\ sample_ids_arg.none)) /\ samples.none
    THEN [raised |-> "AttributeError", video_paths |-> None, sample_ids |-> None]
    ELSE [raised |-> "none",
          video_paths |-> IF video_paths_arg.none
                          THEN Some(Values(samples.val, "filepath"))
                          ELSE video_paths_arg,
          sample_ids |-> IF include_ids /\ sample_ids_arg.none
                         THEN Some(Values(samples.val, "id"))
                         ELSE sample_ids_arg]

_parse_inputs(video_paths_arg, samples, sample_ids_arg, include_ids) ==
    IF video_paths_arg.none /\ samples.none
    THEN [raised |-> "ValueError", video_paths |-> None, sample_ids |-> None]
    ELSE LET parsed_paths == IF video_paths_arg.none
                             THEN Some(Values(samples.val, "filepath"))
                             ELSE video_paths_arg
         IN  IF include_ids /\ sample_ids_arg.none
             THEN IF samples.none
                  THEN [raised |-> "AttributeError", video_paths |-> None,
                        sample_ids |-> None]
                  ELSE [raised |-> "none", video_paths |-> parsed_paths,
                        sample_ids |-> Some(Values(samples.val, "id"))]
             ELSE [raised |-> "none", video_paths |-> parsed_paths,
                   sample_ids |-> sample_ids_arg]

\* lines 219-243: __init__
Construct ==
    /\ ctor.state = "pending"
    /\ LET r == _parse_inputs(ctor.video_paths, ctor.samples, ctor.sample_ids,
                              ctor.include_ids)
       IN  IF r.raised # "none"
           THEN /\ ctor' = [ctor EXCEPT !.state = "raised", !.error = r.raised]
                /\ UNCHANGED <<video_paths, sample_ids, chunk_size,
                               max_cached_decoders, paths_of>>
           ELSE /\ ctor' = [ctor EXCEPT !.state = "constructed"]
                /\ chunk_size' = IF ctor.chunk_size.none THEN 1 ELSE ctor.chunk_size.val
                /\ max_cached_decoders' = ctor.max_cached_decoders
                /\ video_paths' = r.video_paths.val
                /\ sample_ids' = IF r.sample_ids.none THEN <<>> ELSE r.sample_ids.val
                /\ paths_of' = [p \in Procs |-> r.video_paths.val]
    /\ UNCHANGED <<cacheVars, nframes, last, atime, ncalls, num_workers, gen, emitted,
                   proc_of, loader>>

\* iter(DataLoader(dataset, num_workers=...)): the main process iterates, or the
\* worker processes are started
LoaderStart ==
    /\ ctor.state = "constructed"
    /\ \A p \in Procs : gen[p].pc = "idle"
    /\ gen' = [p \in Procs |->
                  IF num_workers = 0
                  THEN IF p = MainProc THEN [IdleGen EXCEPT !.pc = "start"] ELSE IdleGen
                  ELSE IF p < num_workers THEN [IdleGen EXCEPT !.pc = "boot"] ELSE IdleGen]
    /\ ctor' = [ctor EXCEPT !.state = "iterating"]
    /\ UNCHANGED <<cacheVars, nframes, last, atime, ncalls, datasetVars, emitted,
                   proc_of, paths_of, loader>>

NextDataset ==
    \/ Construct
    \/ LoaderStart
    \/ NextIter

InitDataset ==
    /\ \E paths \in SeqsUpTo(IterPaths, MaxVideos) :
           ctor \in [state : {"pending"}, error : {"none"},
                     video_paths : {None, Some(paths)},
                     samples : {None, Some(SamplesOf(paths))},
                     sample_ids : {None, Some(GivenIds(Len(paths)))},
                     include_ids : BOOLEAN,
                     chunk_size : {None, Some(MaxChunk)},
                     max_cached_decoders : {DefaultMaxCached}]
    /\ num_workers \in {0, 1}
    /\ nframes = [p \in Paths |-> IF p = "A" THEN MaxFrames ELSE IF p = "B" THEN 1 ELSE 0]
    /\ video_paths = <<>>
    /\ sample_ids = <<>>
    /\ chunk_size = 1
    /\ max_cached_decoders = DefaultMaxCached
    /\ _worker_decoder_cache = [p \in Procs |-> NoneDict]
    /\ _worker_iterator_cache = [p \in Procs |-> NoneDict]
    /\ decoders = [p \in Procs |-> <<>>]
    /\ gen = [p \in Procs |-> IdleGen]
    /\ emitted = [p \in Procs |-> <<>>]
    /\ last = NoCall
    /\ atime = [p \in Paths |-> 0]
    /\ ncalls = 0
    /\ proc_of = [p \in Procs |-> p]
    /\ paths_of = [p \in Procs |-> <<>>]
    /\ loader = NoLoader

SpecDataset == InitDataset /\ [][NextDataset]_vars

-----------------------------------------------------------------------------
(* SpecCollate: the collate function of the DataLoader applied to one batch *)

\* model.collate_fn applied to the frames of one chunk
ModelCollate(frames) == <<"collated", frames>>

\* the first chunk of the batch on which model.collate_fn raises, 0 if none;
\* fails: the positions of the chunks it raises on
FirstFailure(n, fails) ==
    IF \E i \in 1 .. n : i \in fails
    THEN CHOOSE i \in 1 .. n : i \in fails /\ \A j \in 1 .. (i - 1) : j \notin fails
    ELSE 0

\* lines 208-213: the chunks are dicts changed in place, in batch order; an
\* exception of model_collate leaves the loop with the later chunks unchanged
_video_collate_fn_first(batch, fails) ==
    [raised |-> FirstFailure(Len(batch), fails) # 0,
     batch |-> [i \in 1 .. Len(batch) |->
                   [batch[i] EXCEPT !.frames = ModelCollate(batch[1].frames)]]]

_video_collate_fn(batch, fails) ==
    LET k == FirstFailure(Len(batch), fails)
        collated == IF k = 0 THEN Len(batch) ELSE k - 1
    IN  [raised |-> k # 0,
         batch |-> [i \in 1 .. Len(batch) |->
                       IF i <= collated
                       THEN [batch[i] EXCEPT !.frames = ModelCollate(@)]
                       ELSE batch[i]]]

\* lines 180-185: ErrorHandlingCollate(skip_failures, user_collate_fn=...) calls
\* user_collate_fn(batch) once for the whole batch; an exception is re-raised
\* when skip_failures is false and returned in place of the batch otherwise
ErrorHandlingCollate(skip_failures, batch, fails) ==
    LET r == _video_collate_fn(batch, fails)
    IN  IF ~r.raised
        THEN [state |-> "returned", kind |-> "batch", items |-> r.batch]
        ELSE IF skip_failures
             THEN [state |-> "returned", kind |-> "exception", items |-> <<>>]
             ELSE [state |-> "raised", kind |-> "exception", items |-> <<>>]

\* the DataLoader hands the batch to collate_fn
Collate ==
    /\ loader.state = "pending"
    /\ LET r == ErrorHandlingCollate(loader.skip_failures, loader.batch, loader.fails)
       IN  loader' = [loader EXCEPT !.state = r.state, !.kind = r.kind,
                                    !.items = r.items]
    /\ UNCHANGED <<cacheVars, nframes, last, atime, ncalls, datasetVars, gen, emitted,
                   proc_of, paths_of, ctor>>

\* chunks as __iter__ yields them: frames first .. first + n - 1 of a video
ChunkOf(video_idx, video_path, first, n) ==
    [frames |-> [k \in 1 .. n |-> Transform(Frame(video_path, first + k - 2))],
     sample_idx |-> SampleId(video_idx),
     frame_ids |-> ARangePlus1(first - 1, first - 1 + n),
     video_idx |-> video_idx]

BatchChunks == {ChunkOf(0, "A", 1, 2), ChunkOf(0, "A", 3, 1), ChunkOf(1, "B", 1, 2)}

InitCollate ==
    /\ \E batch \in SeqsUpTo(BatchChunks, MaxBatch) :
           loader \in [state : {"pending"}, kind : {"none"}, items : {<<>>},
                       skip_failures : BOOLEAN,
                       batch : {batch},
                       fails : SUBSET (1 .. Len(batch))]
    /\ _worker_decoder_cache = [p \in Procs |-> NoneDict]
    /\ _worker_iterator_cache = [p \in Procs |-> NoneDict]
    /\ decoders = [p \in Procs |-> <<>>]
    /\ nframes = [p \in Paths |-> 0]
    /\ ncalls = 0
    /\ atime = [p \in Paths |-> 0]
    /\ last = NoCall
    /\ video_paths = <<>>
    /\ chunk_size = 1
    /\ max_cached_decoders = DefaultMaxCached
    /\ sample_ids = <<>>
    /\ num_workers = 0
    /\ gen = [p \in Procs |-> IdleGen]
    /\ emitted = [p \in Procs |-> <<>>]
    /\ proc_of = [p \in Procs |-> p]
    /\ paths_of = [p \in Procs |-> <<>>]
    /\ ctor = NoCtor

SpecCollate == InitCollate /\ [][Collate]_vars

-----------------------------------------------------------------------------
(* Claims on the iteration *)

CeilDiv(n, c) == (n + c - 1) \div c
SeqSet(q) == {q[i] : i \in 1 .. Len(q)}
RECURSIVE ConcatIds(_)
ConcatIds(chunks) ==
    IF chunks = <<>> THEN <<>> ELSE Head(chunks).frame_ids \o ConcatIds(Tail(chunks))
ChunksOf(p, video_idx) == SelectSeq(emitted[p], LAMBDA c : c.video_idx = video_idx)
FramesOfVideo(video_idx) == nframes[video_paths[video_idx + 1]]
Started(p) == gen[p].pc \notin {"idle", "boot", "start"}

\* C1: every chunk has as many frame ids as frames; a video of n frames that has
\* been iterated to its end gave ceil(n/c) chunks, all but the last of c frames,
\* whose frame ids, concatenated, are 1, 2, ..., n.
C1_ChunkingExact ==
    \A p \in Procs :
        /\ \A i \in 1 .. Len(emitted[p]) :
               Len(emitted[p][i].frame_ids) = Len(emitted[p][i].frames)
        /\ \A j \in 1 .. gen[p].done :
               LET video_idx == gen[p].video_indices[j]
                   n == FramesOfVideo(video_idx)
                   chunks == ChunksOf(p, video_idx)
               IN  /\ Len(chunks) = CeilDiv(n, chunk_size)
                   /\ \A i \in 1 .. (Len(chunks) - 1) : Len(chunks[i].frames) = chunk_size
                   /\ ConcatIds(chunks) = [i \in 1 .. n |-> i]

\* 10 frames in chunks of 4: lengths 4, 4, 2 with ids 1-4, 5-8, 9-10, and the
\* second video numbered from 1 again
C1_Witness ==
    /\ chunk_size = 4
    /\ nframes["A"] = 10 /\ nframes["B"] = 2
    /\ gen[MainProc].pc = "done"
    /\ Len(emitted[MainProc]) = 4
    /\ emitted[MainProc][1].frame_ids = <<1, 2, 3, 4>>
    /\ emitted[MainProc][2].frame_ids = <<5, 6, 7, 8>>
    /\ emitted[MainProc][3].frame_ids = <<9, 10>>
    /\ Len(emitted[MainProc][3].frames) = 2
    /\ emitted[MainProc][4].frame_ids = <<1, 2>>

\* C2: with k >= 1 workers and m videos, worker w iterates exactly the indices
\* w, w+k, w+2k, ... below m, the workers' index sets are pairwise disjoint, and
\* together they are 0 .. m-1.
C2_RoundRobinPartition ==
    num_workers >= 1 =>
        LET k == num_workers
            m == Len(video_paths)
            W == 0 .. (k - 1)
        IN  /\ \A w \in W : Started(w) =>
                   /\ SeqSet(gen[w].video_indices) = {i \in 0 .. (m - 1) : i % k = w}
                   /\ \A j \in 1 .. Len(gen[w].video_indices) :
                          gen[w].video_indices[j] = w + (j - 1) * k
            /\ \A w1, w2 \in W : (w1 # w2 /\ Started(w1) /\ Started(w2)) =>
                   SeqSet(gen[w1].video_indices) \cap SeqSet(gen[w2].video_indices) = {}
            /\ (\A w \in W : Started(w)) =>
                   UNION {SeqSet(gen[w].video_indices) : w \in W} = 0 .. (m - 1)

\* two workers, three videos: worker 0 has 0 and 2, worker 1 has 1
C2_Witness ==
    /\ num_workers = 2
    /\ Len(video_paths) = 3
    /\ Started(0) /\ Started(1)
    /\ gen[0].video_indices = <<0, 2>>
    /\ gen[1].video_indices = <<1>>

\* C5: the decoder of every video iterated to its end is closed and held by
\* neither cache, and before the next video is opened the caches hold no entry
\* for the finished video's path, whatever the capacity.
C5_FinishedVideoReleased ==
    \A p \in Procs :
        /\ \A j \in 1 .. gen[p].done :
               LET d == gen[p].opened[j]
               IN  /\ ~decoders[p][d].open
                   /\ \A i \in 1 .. Len(_worker_decoder_cache[p].items) :
                          _worker_decoder_cache[p].items[i][2] # d
                   /\ \A i \in 1 .. Len(_worker_iterator_cache[p].items) :
                          _worker_iterator_cache[p].items[i][2] # d
        /\ (gen[p].pc \in {"for_video", "done"} /\ gen[p].done > 0) =>
               /\ gen[p].video_path \notin KeySet(_worker_decoder_cache[p].items)
               /\ gen[p].video_path \notin KeySet(_worker_iterator_cache[p].items)

\* a video that ended with a shorter last chunk is finished, the capacity left room
\* for it, and the next video is about to be opened
C5_Witness ==
    \E p \in Procs :
        /\ gen[p].pc = "for_video"
        /\ gen[p].done = 1
        /\ Len(gen[p].video_indices) > 1
        /\ max_cached_decoders = DefaultMaxCached
        /\ emitted[p] # <<>>
        /\ Len(emitted[p][Len(emitted[p])].frames) < chunk_size

\* C6: however a generator ends (returned, left by an exception, closed by the
\* consumer), the decoder of the video it was iterating is closed and not cached.
C6_ReleasedOnEveryExit ==
    \A p \in Procs :
        (gen[p].pc \in {"done", "raised", "closed"} /\ gen[p].iterator # 0) =>
            /\ ~decoders[p][gen[p].iterator].open
            /\ gen[p].video_path \notin KeySet(_worker_decoder_cache[p].items)

\* C10: a worker's chunks come video by video in increasing index order, within a
\* video in strictly increasing frame-id order; without workers the one iterator
\* opens every video of the list, in list order.
C10_StrictlyIncreasing(ids) == \A i \in 1 .. (Len(ids) - 1) : ids[i] < ids[i + 1]

C10_EmissionOrder ==
    /\ \A p \in Procs :
           \A i \in 1 .. Len(emitted[p]) :
               /\ emitted[p][i].frame_ids # <<>>
               /\ C10_StrictlyIncreasing(emitted[p][i].frame_ids)
               /\ emitted[p][i].video_idx \in SeqSet(gen[p].video_indices)
               /\ i > 1 =>
                      LET a == emitted[p][i - 1]
                          b == emitted[p][i]
                      IN  \/ a.video_idx < b.video_idx
                          \/ /\ a.video_idx = b.video_idx
                             /\ a.frame_ids[Len(a.frame_ids)] < b.frame_ids[1]
    /\ (num_workers = 0 /\ gen[MainProc].pc = "done") =>
           /\ gen[MainProc].video_indices = [i \in 1 .. Len(video_paths) |-> i - 1]
           /\ Len(gen[MainProc].opened) = Len(video_paths)
           /\ \A j \in 1 .. Len(video_paths) :
                  decoders[MainProc][gen[MainProc].opened[j]].path = video_paths[j]

\* no workers, three videos, all iterated: chunks of the first and of the last
\* video, two of them from one video
C10_Witness ==
    /\ num_workers = 0
    /\ gen[MainProc].pc = "done"
    /\ Len(video_paths) = 3
    /\ Len(emitted[MainProc]) >= 3
    /\ emitted[MainProc][1].video_idx = 0
    /\ emitted[MainProc][2].video_idx = 0
    /\ emitted[MainProc][Len(emitted[MainProc])].video_idx = 2

-----------------------------------------------------------------------------
(* Claims on the constructor and on the sample ids *)

\* the sample ids the caller supplied, else the ones derived from samples when
\* include_ids is set, else none (<<>>)
ExpectedIds ==
    IF ~ctor.sample_ids.none THEN ctor.sample_ids.val
    ELSE IF ctor.include_ids THEN Values(ctor.samples.val, "id")
    ELSE <<>>

\* C11: every chunk yielded for the video at list index i, full or shorter last
\* one, holds frames decoded from that video only and carries sample_idx =
\* sample_ids[i] when sample ids were supplied or derived, None otherwise.
C11_ChunkCarriesSampleOfItsVideo ==
    ctor.state = "iterating" =>
        \A p \in Procs : \A i \in 1 .. Len(emitted[p]) :
            LET c == emitted[p][i]
            IN  /\ c.sample_idx = IF ExpectedIds # <<>>
                                  THEN ExpectedIds[c.video_idx + 1]
                                  ELSE NoId
                /\ \A k \in 1 .. Len(c.frames) :
                       c.frames[k][2][1] = video_paths[c.video_idx + 1]

\* derived ids: a full chunk of video 0 and the shorter last chunk of video 1
C11_Witness ==
    /\ ctor.state = "iterating"
    /\ ctor.sample_ids.none /\ ctor.include_ids
    /\ chunk_size = 2
    /\ Len(emitted[MainProc]) = 2
    /\ emitted[MainProc][1].sample_idx = SampleId(0)
    /\ Len(emitted[MainProc][1].frames) = 2
    /\ emitted[MainProc][2].sample_idx = SampleId(1)
    /\ emitted[MainProc][2].video_idx = 1
    /\ Len(emitted[MainProc][2].frames) = 1

\* C13: a constructor call with neither video_paths nor samples raises
\* ValueError, and no cache has been created and no decoder opened by then.
C13_NeitherInputIsValueError ==
    (ctor.state # "pending" /\ ctor.video_paths.none /\ ctor.samples.none) =>
        /\ ctor.state = "raised"
        /\ ctor.error = "ValueError"
        /\ \A p \in Procs :
               /\ _worker_decoder_cache[p] = NoneDict
               /\ _worker_iterator_cache[p] = NoneDict
               /\ decoders[p] = <<>>
               /\ gen[p].pc = "idle"

C13_Witness ==
    /\ ctor.state = "raised"
    /\ ctor.error = "ValueError"
    /\ ctor.video_paths.none /\ ctor.samples.none
    /\ ctor.include_ids

\* C14: a constructor call with include_ids=True and explicit video_paths, but
\* neither samples nor sample_ids, raises ValueError like the call without inputs.
C14_MissingIdSourceIsValueError ==
    (/\ ctor.state # "pending"
     /\ ctor.include_ids
     /\ ~ctor.video_paths.none
     /\ ctor.samples.none
     /\ ctor.sample_ids.none) =>
        (ctor.state = "raised" /\ ctor.error = "ValueError")

-----------------------------------------------------------------------------
(* Claims on the collate function *)

\* the chunks of the batch on which model.collate_fn does not raise, collated,
\* in batch order
RECURSIVE CollatedSurvivors(_, _, _)
CollatedSurvivors(batch, fails, i) ==
    IF i > Len(batch) THEN <<>>
    ELSE (IF i \in fails THEN <<>>
          ELSE <<[batch[i] EXCEPT !.frames = ModelCollate(@)]>>)
         \o CollatedSurvivors(batch, fails, i + 1)

\* C12: when model.collate_fn raises on some chunks of a batch, then with
\* skip_failures=True the consumer receives, without an exception, the batch of
\* exactly the chunks whose collation succeeded (4 chunks when 1 of 5 fails), and
\* with skip_failures=False the exception is raised.
C12_FailedChunksAreOmitted ==
    (loader.state # "pending" /\ loader.fails # {}) =>
        IF loader.skip_failures
        THEN /\ loader.state = "returned"
             /\ loader.kind = "batch"
             /\ loader.items = CollatedSurvivors(loader.batch, loader.fails, 1)
        ELSE loader.state = "raised"

\* C18: the batch the video collate function returns has the chunks of the batch
\* it was given, in the same number and order, each with the same sample_idx and
\* frame_ids and with its frames replaced by model.collate_fn of its own frames.
C18_CollateReplacesFramesOnly ==
    (loader.state = "returned" /\ loader.kind = "batch") =>
        /\ Len(loader.items) = Len(loader.batch)
        /\ \A i \in 1 .. Len(loader.batch) :
               /\ loader.items[i].frames = ModelCollate(loader.batch[i].frames)
               /\ loader.items[i].sample_idx = loader.batch[i].sample_idx
               /\ loader.items[i].frame_ids = loader.batch[i].frame_ids

\* a batch of three chunks of two videos, collated
C18_Witness ==
    /\ loader.state = "returned"
    /\ loader.kind = "batch"
    /\ loader.batch = <<ChunkOf(0, "A", 1, 2), ChunkOf(0, "A", 3, 1), ChunkOf(1, "B", 1, 2)>>
    /\ loader.items[2].frame_ids = <<3>>
    /\ loader.items[3].sample_idx = SampleId(1)
    /\ loader.items[3].frames = ModelCollate(<<Transform(Frame("B", 0)), Transform(Frame("B", 1))>>)

-----------------------------------------------------------------------------
(* Claims on failures of the cache functions *)

\* C15: when decoder.close() raises inside _del_decoder, the call still returns
\* normally and the entry is gone from both the decoder and the iterator cache.
C15_CloseFailureIsSwallowed ==
    (last.op = "del" /\ last.fail = "close") =>
        /\ last.raised = "none"
        /\ last.removed \notin KeySet(CacheItems)
        /\ last.removed \notin KeySet(IterItems)

-----------------------------------------------------------------------------
(* Claims on the worker processes *)

\* the paths a process has opened a decoder for, and those it holds open
OpenedPaths(p) == {decoders[p][d].path : d \in 1 .. Len(decoders[p])}
HeldPaths(p) == {decoders[p][d].path : d \in {e \in 1 .. Len(decoders[p]) : decoders[p][e].open}}
DistinctPaths == \A i, j \in 1 .. Len(video_paths) : video_paths[i] = video_paths[j] => i = j

\* C16, as stated: for any video list, with k workers no two workers ever hold an
\* open decoder for the same path, and every path is opened by one worker only.
C16_NoPathInTwoWorkers ==
    \A p, q \in Procs :
        p # q => /\ HeldPaths(p) \cap HeldPaths(q) = {}
                 /\ OpenedPaths(p) \cap OpenedPaths(q) = {}

\* C16, amended: the same, for every video list whose paths are pairwise distinct.
C16_NoPathInTwoWorkers_DistinctPaths ==
    DistinctPaths => C16_NoPathInTwoWorkers

\* two workers decoding at the same time, each its own video
C16_Witness ==
    /\ num_workers = 2
    /\ video_paths = <<"A", "B">>
    /\ gen[0].pc = "yield_full" /\ gen[1].pc = "yield_full"
    /\ HeldPaths(0) = {"A"}
    /\ HeldPaths(1) = {"B"}

\* a worker that has just run worker_init_fn has two empty caches
C17_EmptyAfterInit ==
    \A p \in Procs :
        gen[p].pc = "start" =>
            /\ _worker_decoder_cache[p] = EmptyDict
            /\ _worker_iterator_cache[p] = EmptyDict

\* a step in which worker p does not move leaves p's caches as they were
C17_OthersUntouched ==
    \A p \in Procs :
        gen'[p] = gen[p] =>
            /\ _worker_decoder_cache'[p] = _worker_decoder_cache[p]
            /\ _worker_iterator_cache'[p] = _worker_iterator_cache[p]

\* C17: right after worker_init_fn has run in a worker, both of its caches are
\* empty, whatever the worker started with; and no step of one worker (a get, a
\* release, a reset) changes the caches of another worker.
C17_WorkerCachesIndependent == [](C17_EmptyAfterInit) /\ [][C17_OthersUntouched]_vars

\* both workers started with a cached decoder for A; each now caches only the
\* decoder it opened itself
C17_Witness ==
    /\ num_workers = 2
    /\ video_paths = <<"A", "B">>
    /\ Len(decoders[0]) = 2 /\ Len(decoders[1]) = 2
    /\ _worker_decoder_cache[0].items = <<<<"A", 2>>>>
    /\ _worker_decoder_cache[1].items = <<<<"B", 2>>>>
    /\ _worker_iterator_cache[1].items = <<<<"B", 2>>>>

-----------------------------------------------------------------------------
(* Claims on eviction during iteration *)

\* the generator is inside the chunking of a video (lines 284-321)
InVideo(p) == gen[p].pc \in {"for_img", "yield_full", "yield_last", "del"}

\* no other generator of the process has the generator's current path in its
\* list: only a capacity eviction can have closed its decoder
OnlyUser(p) ==
    \A q \in Procs \ {p} :
        (proc_of[q] = proc_of[p] /\ gen[q].pc # "idle") =>
            gen[p].video_path \notin SeqSet(paths_of[q])

EvictedInProgress(p) ==
    /\ InVideo(p)
    /\ OnlyUser(p)
    /\ ~decoders[proc_of[p]][gen[p].iterator].open

\* C19, as stated: after a capacity eviction of the entry of a video in progress,
\* the chunking re-enters the cache and goes on with a fresh, open decoder: the
\* generator is never in its frame loop over the closed decoder.
C19_EvictedVideoRestarts ==
    \A p \in Procs : gen[p].pc = "for_img" => ~EvictedInProgress(p)

\* C19, amended: the chunking of a video never re-enters the cache, evicted or
\* not: the generator has obtained one iterator per video it started and keeps
\* the one of the current video, and the frame ids it yields for a video never
\* start again from 1.
C19_EvictedVideoIsNotReopened ==
    \A p \in Procs :
        /\ Len(gen[p].opened) =
               gen[p].done + (IF InVideo(p) \/ gen[p].pc = "raised" THEN 1 ELSE 0)
        /\ InVideo(p) => gen[p].iterator = gen[p].opened[Len(gen[p].opened)]
        /\ \A i, j \in 1 .. Len(emitted[p]) :
               (i < j /\ emitted[p][i].video_idx = emitted[p][j].video_idx) =>
                   emitted[p][i].frame_ids[Len(emitted[p][i].frame_ids)]
                       < emitted[p][j].frame_ids[1]

\* generator 0 yielded frame 1 of A, generator 1 opened B with capacity 1 and so
\* evicted A; generator 0 was resumed and has left its frame loop over the closed
\* decoder without a second chunk
C19_Witness ==
    /\ max_cached_decoders = 1
    /\ paths_of[0] = <<"A">> /\ paths_of[1] = <<"B">>
    /\ nframes["A"] = 2 /\ chunk_size = 1
    /\ gen[0].pc \in {"del", "raised"}
    /\ gen[0].done = 0
    /\ EvictedInProgress(0) \/ gen[0].pc = "raised"
    /\ ~decoders[MainProc][gen[0].iterator].open
    /\ Len(emitted[0]) = 1
    /\ KeySet(CacheItems) = {"B"}

\* C20: a dataset iterator that runs alone in its process, from an empty cache,
\* with max_cached_decoders >= 1 and without exception: the cache never holds
\* more than one entry, it is empty whenever a video is about to be opened (so
\* the capacity eviction never fires), and the decoder of the video in progress
\* is cached and open until its frames are exhausted.
C20_LoneIteratorNeverEvicts ==
    \A p \in Procs :
        /\ Len(_worker_decoder_cache[p].items) <= 1
        /\ Len(_worker_iterator_cache[p].items) <= 1
        /\ gen[p].pc = "for_video" => _worker_decoder_cache[p].items = <<>>
        /\ InVideo(p) =>
               /\ decoders[p][gen[p].iterator].open
               /\ _worker_decoder_cache[p].items = <<<<gen[p].video_path, gen[p].iterator>>>>
        /\ \A d \in 1 .. Len(decoders[p]) :
               ~decoders[p][d].open => decoders[p][d].pos = nframes[decoders[p][d].path]

\* capacity 1: the second video of a worker in progress, the first one released
C20_Witness ==
    /\ max_cached_decoders = 1
    /\ gen[MainProc].done = 1
    /\ gen[MainProc].pc = "yield_full"
    /\ Len(decoders[MainProc]) = 2
    /\ ~decoders[MainProc][1].open
    /\ decoders[MainProc][2].open

-----------------------------------------------------------------------------
(* Claims on the two caches together, and on termination *)

\* C21: after every call of _get_cached_decoder, _del_decoder or worker_init_fn,
\* returned or left by an exception (decoder open or close raising included),
\* the decoder cache and the iterator cache hold the same keys in the same order.
C21_CachesHaveSameKeys ==
    /\ _worker_decoder_cache[MainProc].none = _worker_iterator_cache[MainProc].none
    /\ OD_keys(CacheItems) = OD_keys(IterItems)

\* the generator of process p has returned
Terminated(p) == gen[p].pc = "done"

\* every assigned video was read to its end, every decoder the process opened is
\* closed, one per assigned video, and both caches are empty
AllReleased(p) ==
    /\ gen[p].done = Len(gen[p].video_indices)
    /\ Len(decoders[p]) = Len(gen[p].video_indices)
    /\ \A d \in 1 .. Len(decoders[p]) :
           /\ ~decoders[p][d].open
           /\ decoders[p][d].pos = nframes[decoders[p][d].path]
    /\ _worker_decoder_cache[p].items = <<>>
    /\ _worker_iterator_cache[p].items = <<>>

\* C22: when nothing fails and the consumer keeps pulling, every iterating
\* process eventually returns from __iter__, and a process that has returned has
\* exhausted all its videos, closed every decoder it opened and has empty caches.
C22_TerminatesWithEmptyCache ==
    /\ [](\A p \in Procs : Terminated(p) => AllReleased(p))
    /\ <>(\A p \in Procs : gen[p].pc # "idle" => Terminated(p))

\* two workers over three videos, both returned; worker 0 had videos 0 and 2
C22_Witness ==
    /\ num_workers = 2
    /\ Len(video_paths) = 3
    /\ Terminated(0) /\ Terminated(1)
    /\ gen[0].video_indices = <<0, 2>>
    /\ Len(decoders[0]) = 2
    /\ Len(emitted[0]) >= 2
    /\ AllReleased(0) /\ AllReleased(1)

====
